---- MODULE Spec2Model ----
(***************************************************************************)
(* A model of the notebook crime_reports_db.ipynb.                         *)
(*                                                                         *)
(* Spec   : the CSV profiling cells (cell 4, cell 6 and cell 9) and the    *)
(*          function get_col_set, step by step, over every small CSV file. *)
(* SpecDB : the cells that talk to PostgreSQL through psycopg2 (cells 2,   *)
(*          11, 13, 15, 17, 19, 21, 23, 25, 27, 29, 31), one action per    *)
(*          kind of statement, with the transaction state of the           *)
(*          connection and the committed state of the server kept apart.   *)
(***************************************************************************)
EXTENDS Integers, Sequences, FiniteSets, TLC

VARIABLES
    \* ---- the CSV cells ----
    file,                \* boston.csv: [exists, records], records as csv.reader yields them
    cell,                \* the notebook cell that runs next: "cell4", "cell6", "cell9", "end"
    col_headers,         \* cell 4's global: [bound, val]
    i,                   \* cell 6's loop variable
    out,                 \* the lines cell 6 printed, one record per line
    desc_unique_values,  \* cell 9's global: [bound, val]
    desc_max_length,     \* cell 9's global: [bound, val]
    raised,              \* the exception each cell ended with ("" when none)
    pc,                  \* position inside the running get_col_set call
    col_index,           \* get_col_set's parameter
    pos,                 \* the reader's position: index of the next record
    acc,                 \* the set under construction
    pending,             \* the outcome that leaves the with block
    handles,             \* number of open file handles
    ret,                 \* the outcome the caller receives
    \* ---- the database cells ----
    copy_rows,           \* boston.csv as COPY sees it: one record per data row
    step,                \* index of the next statement of the notebook
    conn,                \* the psycopg2 connection bound to the global conn
    committed,           \* the server's committed state
    working,             \* the state the session's open transaction sees
    failed,              \* statements that raised
    readonly_privileges, \* cell 29's fetchall()
    readwrite_privileges,\* cell 29's fetchall()
    members_printed,     \* cell 31's fetchall()
    other_session        \* what another session sees when it logs in

csvVars == <<file, cell, col_headers, i, out, desc_unique_values, desc_max_length,
             raised, pc, col_index, pos, acc, pending, handles, ret>>
dbVars == <<copy_rows, step, conn, committed, working, failed, readonly_privileges,
            readwrite_privileges, members_printed, other_session>>
vars == <<csvVars, dbVars>>

(***************************************************************************)
(* Bounds of the model.                                                    *)
(***************************************************************************)
MaxRows == 2
MaxWidth == 2
MaxCopyRows == 2

\* The raw field values that occur in the data rows. "incident_number" is also a
\* column name.
Values == {"1", "incident_number"}
\* The column names, in header order.
HeaderNames == <<"incident_number", "offense_code", "description", "date">>
\* The indices get_col_set is called with: Python accepts negative indices too.
ColIndexes == -1 .. MaxWidth

RECURSIVE SeqsUpTo(_, _)
SeqsUpTo(S, n) ==
    IF n = 0 THEN {<<>>}
    ELSE LET shorter == SeqsUpTo(S, n - 1)
         IN shorter \cup {Append(s, x) : s \in {t \in shorter : Len(t) = n - 1}, x \in S}

Rows == SeqsUpTo(Values, MaxWidth)
Headers == {SubSeq(HeaderNames, 1, n) : n \in 0 .. MaxWidth}
Files ==
    {[exists |-> FALSE, records |-> <<>>], [exists |-> TRUE, records |-> <<>>]}
    \cup {[exists |-> TRUE, records |-> <<h>> \o rs] : h \in Headers, rs \in SeqsUpTo(Rows, MaxRows)}

(***************************************************************************)
(* Python values.                                                          *)
(***************************************************************************)
Unbound == [bound |-> FALSE, val |-> <<>>]
Bound(v) == [bound |-> TRUE, val |-> v]
NoOutcome == [kind |-> "none", val |-> {}, exc |-> ""]
Return(v) == [kind |-> "value", val |-> v, exc |-> ""]
Raise(e) == [kind |-> "raise", val |-> {}, exc |-> e]

\* row[col_index] is defined for -len(row) <= col_index < len(row)
HasIndex(row, c) == IF c >= 0 THEN c < Len(row) ELSE -c <= Len(row)
Subscript(row, c) == IF c >= 0 THEN row[c + 1] ELSE row[Len(row) + c + 1]

\* max(len(val) for val in s), for a non-empty s
MaxLen(s) == CHOOSE n \in {Len(v) : v \in s} : \A v \in s : Len(v) <= n

(***************************************************************************)
(* get_col_set, cell 6.                                                    *)
(***************************************************************************)
\* One iteration of the generator "row[col_index] for row in reader" feeding set()
RowStepAssign(a, row, c) ==
    IF HasIndex(row, c) THEN Return({Subscript(row, c)}) ELSE Raise("IndexError")
RowStepSkipShort(a, row, c) ==
    IF HasIndex(row, c) THEN Return(a \cup {Subscript(row, c)}) ELSE Return(a)
RowStep(a, row, c) ==
    IF HasIndex(row, c) THEN Return(a \cup {Subscript(row, c)}) ELSE Raise("IndexError")

\* The call as a whole: what get_col_set(csv_filename, col_index) gives its caller
RECURSIVE Consume(_, _, _, _)
Consume(records, p, a, c) ==
    IF p > Len(records) THEN Return(a)
    ELSE LET r == RowStep(a, records[p], c)
         IN IF r.kind = "raise" THEN r ELSE Consume(records, p + 1, r.val, c)

get_col_set(f, c) ==
    IF ~f.exists THEN Raise("FileNotFoundError")
    ELSE IF Len(f.records) = 0 THEN Raise("StopIteration")
    ELSE Consume(f.records, 2, {}, c)

\* "with open(csv_filename) as f": open() raises when the file is missing
OpenFile ==
    /\ pc = "open"
    /\ IF file.exists
       THEN /\ handles' = handles + 1
            /\ pos' = 1
            /\ pc' = "next"
            /\ ret' = ret
       ELSE /\ ret' = Raise("FileNotFoundError")
            /\ pc' = "done"
            /\ UNCHANGED <<handles, pos>>
    /\ acc' = {}
    /\ pending' = NoOutcome
    /\ UNCHANGED <<file, cell, col_headers, i, out, desc_unique_values, desc_max_length,
                   raised, col_index>>
    /\ UNCHANGED dbVars

\* "reader = csv.reader(f); next(reader)": the header is read and dropped
NextHeaderKept ==
    /\ pc = "next"
    /\ pc' = "iter"
    /\ UNCHANGED <<file, cell, col_headers, i, out, desc_unique_values, desc_max_length,
                   raised, col_index, pos, acc, pending, handles, ret>>
    /\ UNCHANGED dbVars
NextHeader ==
    /\ pc = "next"
    /\ IF pos <= Len(file.records)
       THEN /\ pos' = pos + 1
            /\ pc' = "iter"
            /\ pending' = pending
       ELSE /\ pending' = Raise("StopIteration")
            /\ pc' = "exit"
            /\ pos' = pos
    /\ UNCHANGED <<file, cell, col_headers, i, out, desc_unique_values, desc_max_length,
                   raised, col_index, acc, handles, ret>>
    /\ UNCHANGED dbVars

\* "return set(row[col_index] for row in reader)": set() pulls one row at a time
\* inside the with block; the return value is complete before the block is left
IterRow ==
    /\ pc = "iter"
    /\ IF pos > Len(file.records)
       THEN /\ pending' = Return(acc)
            /\ pc' = "exit"
            /\ UNCHANGED <<pos, acc>>
       ELSE LET r == RowStep(acc, file.records[pos], col_index)
            IN IF r.kind = "raise"
               THEN /\ pending' = r
                    /\ pc' = "exit"
                    /\ UNCHANGED <<pos, acc>>
               ELSE /\ acc' = r.val
                    /\ pos' = pos + 1
                    /\ UNCHANGED <<pending, pc>>
    /\ UNCHANGED <<file, cell, col_headers, i, out, desc_unique_values, desc_max_length,
                   raised, col_index, handles, ret>>
    /\ UNCHANGED dbVars

\* Leaving the with block: the context manager closes f on return and on exception
WithExitNoClose ==
    /\ pc = "exit"
    /\ handles' = IF pending.kind = "value" THEN handles - 1 ELSE handles
    /\ ret' = pending
    /\ pc' = "done"
    /\ UNCHANGED <<file, cell, col_headers, i, out, desc_unique_values, desc_max_length,
                   raised, col_index, pos, acc, pending>>
    /\ UNCHANGED dbVars
WithExit ==
    /\ pc = "exit"
    /\ handles' = handles - 1
    /\ ret' = pending
    /\ pc' = "done"
    /\ UNCHANGED <<file, cell, col_headers, i, out, desc_unique_values, desc_max_length,
                   raised, col_index, pos, acc, pending>>
    /\ UNCHANGED dbVars

(***************************************************************************)
(* The cells.  A cell that raises stops; the next cell can still be run.   *)
(***************************************************************************)
\* Cell 4: col_headers = next(reader); first_row = next(reader), inside a with block
Cell4 ==
    /\ cell = "cell4"
    /\ col_headers' = IF file.exists /\ Len(file.records) >= 1
                      THEN Bound(file.records[1]) ELSE col_headers
    /\ raised' = [raised EXCEPT !.cell4 =
                     IF ~file.exists THEN "FileNotFoundError"
                     ELSE IF Len(file.records) < 2 THEN "StopIteration" ELSE ""]
    /\ cell' = "cell6"
    /\ UNCHANGED <<file, i, out, desc_unique_values, desc_max_length, pc, col_index, pos,
                   acc, pending, handles, ret>>
    /\ UNCHANGED dbVars

\* Cell 6, loop head: "for i in range(len(col_headers))" and the call get_col_set("boston.csv", i)
LoopNameSwapped(k) == IF k + 2 <= Len(col_headers.val) THEN k + 2 ELSE 1
LoopName(k) == k + 1
Cell6Loop ==
    /\ cell = "cell6"
    /\ pc = "idle"
    /\ IF ~col_headers.bound
       THEN /\ raised' = [raised EXCEPT !.cell6 = "NameError"]
            /\ cell' = "cell9"
            /\ UNCHANGED <<pc, col_index>>
       ELSE IF i < Len(col_headers.val)
       THEN /\ col_index' = i
            /\ pc' = "open"
            /\ UNCHANGED <<raised, cell>>
       ELSE /\ cell' = "cell9"
            /\ UNCHANGED <<raised, pc, col_index>>
    /\ UNCHANGED <<file, col_headers, i, out, desc_unique_values, desc_max_length, pos,
                   acc, pending, handles, ret>>
    /\ UNCHANGED dbVars

\* Cell 6, loop body after the call: num_unique_values = len(...); print(...)
Cell6Print ==
    /\ cell = "cell6"
    /\ pc = "done"
    /\ ret.kind = "value"
    /\ out' = Append(out, [name |-> col_headers.val[LoopName(i)],
                           values |-> ret.val,
                           num_unique_values |-> Cardinality(ret.val)])
    /\ i' = i + 1
    /\ pc' = "idle"
    /\ ret' = NoOutcome
    /\ UNCHANGED <<file, cell, col_headers, desc_unique_values, desc_max_length, raised,
                   col_index, pos, acc, pending, handles>>
    /\ UNCHANGED dbVars

\* Cell 6: an exception of the call leaves the loop and the cell
Cell6Raise ==
    /\ cell = "cell6"
    /\ pc = "done"
    /\ ret.kind = "raise"
    /\ raised' = [raised EXCEPT !.cell6 = ret.exc]
    /\ cell' = "cell9"
    /\ pc' = "idle"
    /\ ret' = NoOutcome
    /\ UNCHANGED <<file, col_headers, i, out, desc_unique_values, desc_max_length,
                   col_index, pos, acc, pending, handles>>
    /\ UNCHANGED dbVars

\* Cell 9: the call get_col_set("boston.csv", 2); the model draws the index
Cell9Call(c) ==
    /\ cell = "cell9"
    /\ pc = "idle"
    /\ col_index' = c
    /\ pc' = "open"
    /\ UNCHANGED <<file, cell, col_headers, i, out, desc_unique_values, desc_max_length,
                   raised, pos, acc, pending, handles, ret>>
    /\ UNCHANGED dbVars

\* Cell 9: desc_unique_values = <the set>; desc_max_length = max(len(val) for val in ...)
\* max() of an empty sequence raises ValueError
Cell9Max ==
    /\ cell = "cell9"
    /\ pc = "done"
    /\ IF ret.kind = "raise"
       THEN /\ raised' = [raised EXCEPT !.cell9 = ret.exc]
            /\ UNCHANGED <<desc_unique_values, desc_max_length>>
       ELSE /\ desc_unique_values' = Bound(ret.val)
            /\ IF ret.val = {}
               THEN /\ raised' = [raised EXCEPT !.cell9 = "ValueError"]
                    /\ desc_max_length' = desc_max_length
               ELSE /\ desc_max_length' = Bound(MaxLen(ret.val))
                    /\ raised' = raised
    /\ cell' = "end"
    /\ pc' = "idle"
    /\ UNCHANGED <<file, col_headers, i, out, col_index, pos, acc, pending, handles, ret>>
    /\ UNCHANGED dbVars

DbIdle ==
    /\ copy_rows = <<>>
    /\ step = 0
    /\ conn = 0
    /\ committed = 0
    /\ working = 0
    /\ failed = {}
    /\ readonly_privileges = {}
    /\ readwrite_privileges = {}
    /\ members_printed = {}
    /\ other_session = 0

Init ==
    /\ file \in Files
    /\ cell = "cell4"
    /\ col_headers = Unbound
    /\ i = 0
    /\ out = <<>>
    /\ desc_unique_values = Unbound
    /\ desc_max_length = Unbound
    /\ raised = [cell4 |-> "", cell6 |-> "", cell9 |-> ""]
    /\ pc = "idle"
    /\ col_index = 0
    /\ pos = 0
    /\ acc = {}
    /\ pending = NoOutcome
    /\ handles = 0
    /\ ret = NoOutcome
    /\ DbIdle

Next ==
    \/ Cell4
    \/ Cell6Loop
    \/ Cell6Print
    \/ Cell6Raise
    \/ \E c \in ColIndexes : Cell9Call(c)
    \/ Cell9Max
    \/ OpenFile
    \/ NextHeader
    \/ IterRow
    \/ WithExit

Spec == Init /\ [][Next]_vars

(***************************************************************************)
(* The PostgreSQL server: what each kind of statement does to a catalog    *)
(* state db.  An effect is [ok, db, exc]; a failed statement changes       *)
(* nothing.                                                                *)
(***************************************************************************)
Ok(db) == [ok |-> TRUE, db |-> db, exc |-> ""]
Err(db, e) == [ok |-> FALSE, db |-> db, exc |-> e]

\* A cluster as initdb leaves it. pub: the privileges PUBLIC gets on a new schema public
FreshServer(pub) ==
    [databases |-> {"postgres"},
     schemas |-> {},
     types |-> {},
     tables |-> {},
     rows |-> {},
     roles |-> {"postgres"},
     table_privileges |-> {},
     members |-> {},
     schema_privileges |-> {},
     database_privileges |-> {},
     public_default |-> pub]

CreateDatabaseEff(db, name) ==
    IF name \in db.databases THEN Err(db, "DuplicateDatabase")
    ELSE Ok([db EXCEPT
               !.databases = @ \cup {name},
               !.schemas = @ \cup {"public"},
               !.schema_privileges = @ \cup
                   {[grantee |-> "PUBLIC", schema |-> "public", privilege_type |-> q] :
                        q \in db.public_default},
               !.database_privileges = @ \cup
                   {[grantee |-> "PUBLIC", database |-> name, privilege_type |-> q] :
                        q \in {"CONNECT", "TEMPORARY"}}])

CreateSchemaEff(db, name) ==
    IF name \in db.schemas THEN Err(db, "DuplicateSchema")
    ELSE Ok([db EXCEPT !.schemas = @ \cup {name}])

CreateTypeEff(db, name) ==
    IF name \in db.types THEN Err(db, "DuplicateObject")
    ELSE Ok([db EXCEPT !.types = @ \cup {name}])

CreateTableEff(db, schema, name, type) ==
    IF schema \notin db.schemas THEN Err(db, "InvalidSchemaName")
    ELSE IF type \notin db.types THEN Err(db, "UndefinedObject")
    ELSE IF [schema |-> schema, name |-> name] \in db.tables THEN Err(db, "DuplicateTable")
    ELSE Ok([db EXCEPT !.tables = @ \cup {[schema |-> schema, name |-> name]}])

\* COPY ... FROM STDIN WITH CSV HEADER: all rows or none; a row that does not
\* parse into the column types, or a repeated primary key, fails the statement
CopyEff(db, schema, name, rows) ==
    IF [schema |-> schema, name |-> name] \notin db.tables THEN Err(db, "UndefinedTable")
    ELSE IF \E k \in 1 .. Len(rows) : ~rows[k].valid THEN Err(db, "DataError")
    ELSE IF \E k, l \in 1 .. Len(rows) :
                k # l /\ rows[k].incident_number = rows[l].incident_number
         THEN Err(db, "UniqueViolation")
    ELSE IF \E k \in 1 .. Len(rows) : rows[k].incident_number \in db.rows
         THEN Err(db, "UniqueViolation")
    ELSE Ok([db EXCEPT !.rows = @ \cup {rows[k].incident_number : k \in 1 .. Len(rows)}])

SelectEff(db, schema, name) ==
    IF [schema |-> schema, name |-> name] \notin db.tables THEN Err(db, "UndefinedTable")
    ELSE Ok(db)

RevokeAllSchemaEff(db, schema, grantee) ==
    IF schema \notin db.schemas THEN Err(db, "InvalidSchemaName")
    ELSE Ok([db EXCEPT !.schema_privileges =
                {q \in @ : ~(q.grantee = grantee /\ q.schema = schema)}])

RevokeAllDatabaseEff(db, database, grantee) ==
    IF database \notin db.databases THEN Err(db, "InvalidCatalogName")
    ELSE Ok([db EXCEPT !.database_privileges =
                {q \in @ : ~(q.grantee = grantee /\ q.database = database)}])

CreateRoleEff(db, name) ==
    IF name \in db.roles THEN Err(db, "DuplicateObject")
    ELSE Ok([db EXCEPT !.roles = @ \cup {name}])

GrantDatabaseEff(db, priv, database, grantee) ==
    IF database \notin db.databases THEN Err(db, "InvalidCatalogName")
    ELSE IF grantee \notin db.roles THEN Err(db, "UndefinedObject")
    ELSE Ok([db EXCEPT !.database_privileges = @ \cup
                {[grantee |-> grantee, database |-> database, privilege_type |-> priv]}])

GrantSchemaEff(db, priv, schema, grantee) ==
    IF schema \notin db.schemas THEN Err(db, "InvalidSchemaName")
    ELSE IF grantee \notin db.roles THEN Err(db, "UndefinedObject")
    ELSE Ok([db EXCEPT !.schema_privileges = @ \cup
                {[grantee |-> grantee, schema |-> schema, privilege_type |-> priv]}])

\* GRANT privs ON ALL TABLES IN SCHEMA schema TO grantee: the tables that exist now
GrantAllTablesEff(db, privs, schema, grantee) ==
    IF schema \notin db.schemas THEN Err(db, "InvalidSchemaName")
    ELSE IF grantee \notin db.roles THEN Err(db, "UndefinedObject")
    ELSE Ok([db EXCEPT !.table_privileges = @ \cup
                {[grantee |-> grantee, table |-> t, privilege_type |-> q] :
                     t \in {u \in db.tables : u.schema = schema}, q \in privs}])

\* GRANT role TO member
GrantRoleEff(db, role, member) ==
    IF role \notin db.roles \/ member \notin db.roles THEN Err(db, "UndefinedObject")
    ELSE Ok([db EXCEPT !.members = @ \cup {[member |-> member, role |-> role]}])

(***************************************************************************)
(* The statements of the notebook, in cell order.                          *)
(***************************************************************************)
BostonCrimes == [schema |-> "crimes", name |-> "boston_crimes"]

ConnectPostgres == [cell |-> 2, kind |-> "connect", dbname |-> "postgres"]
SetAutocommit == [cell |-> 2, kind |-> "autocommit"]
CreateDatabase == [cell |-> 2, kind |-> "create_database", name |-> "crime_db"]
CloseConn == [cell |-> 2, kind |-> "close"]
ConnectCrimeDb == [cell |-> 2, kind |-> "connect", dbname |-> "crime_db"]
CreateSchema == [cell |-> 2, kind |-> "create_schema", name |-> "crimes"]
CreateType == [cell |-> 11, kind |-> "create_type", name |-> "day_of_week"]
CreateTable == [cell |-> 13, kind |-> "create_table", schema |-> "crimes",
                name |-> "boston_crimes", type |-> "day_of_week"]
CopyExpert == [cell |-> 15, kind |-> "copy", schema |-> "crimes", name |-> "boston_crimes"]
SelectFirstFive == [cell |-> 17, kind |-> "select", schema |-> "crimes",
                    name |-> "boston_crimes"]
RevokeSchemaPublic == [cell |-> 19, kind |-> "revoke_schema", schema |-> "public",
                       grantee |-> "PUBLIC"]
RevokeDatabasePublic == [cell |-> 19, kind |-> "revoke_database", database |-> "crime_db",
                         grantee |-> "PUBLIC"]
CreateGroupReadonly == [cell |-> 21, kind |-> "create_role", name |-> "readonly"]
CreateGroupReadwrite == [cell |-> 21, kind |-> "create_role", name |-> "readwrite"]
GrantConnectReadonly == [cell |-> 23, kind |-> "grant_database", priv |-> "CONNECT",
                         database |-> "crime_db", grantee |-> "readonly"]
GrantConnectReadwrite == [cell |-> 23, kind |-> "grant_database", priv |-> "CONNECT",
                          database |-> "crime_db", grantee |-> "readwrite"]
GrantUsageReadonly == [cell |-> 23, kind |-> "grant_schema", priv |-> "USAGE",
                       schema |-> "crimes", grantee |-> "readonly"]
GrantUsageReadwrite == [cell |-> 23, kind |-> "grant_schema", priv |-> "USAGE",
                        schema |-> "crimes", grantee |-> "readwrite"]
GrantTablesReadonlyAll == [cell |-> 25, kind |-> "grant_tables",
                           privs |-> {"SELECT", "INSERT", "DELETE", "UPDATE"},
                           schema |-> "crimes", grantee |-> "readonly"]
GrantTablesReadonly == [cell |-> 25, kind |-> "grant_tables", privs |-> {"SELECT"},
                        schema |-> "crimes", grantee |-> "readonly"]
GrantTablesReadwrite == [cell |-> 25, kind |-> "grant_tables",
                         privs |-> {"SELECT", "INSERT", "DELETE", "UPDATE"},
                         schema |-> "crimes", grantee |-> "readwrite"]
CreateUserAnalyst == [cell |-> 27, kind |-> "create_role", name |-> "data_analyst"]
GrantReadonlyToAnalyst == [cell |-> 27, kind |-> "grant_role", role |-> "readonly",
                           member |-> "data_analyst"]
CreateUserScientist == [cell |-> 27, kind |-> "create_role", name |-> "data_scientist"]
GrantReadonlyToScientist == [cell |-> 27, kind |-> "grant_role", role |-> "readonly",
                             member |-> "data_scientist"]
GrantReadwriteToScientist == [cell |-> 27, kind |-> "grant_role", role |-> "readwrite",
                              member |-> "data_scientist"]
QueryReadonlyPrivileges == [cell |-> 29, kind |-> "query_privileges",
                            grantee |-> "readonly"]
QueryReadwritePrivileges == [cell |-> 29, kind |-> "query_privileges",
                             grantee |-> "readwrite"]
QueryAuthMembers == [cell |-> 31, kind |-> "query_members",
                     groups |-> {"readonly", "readwrite"}]

Program ==
    <<ConnectPostgres, SetAutocommit, CreateDatabase, CloseConn, ConnectCrimeDb,
      CreateSchema, CreateType, CreateTable, CopyExpert, SelectFirstFive,
      RevokeSchemaPublic, RevokeDatabasePublic, CreateGroupReadonly,
      CreateGroupReadwrite, GrantConnectReadonly, GrantConnectReadwrite,
      GrantUsageReadonly, GrantUsageReadwrite, GrantTablesReadonly,
      GrantTablesReadwrite, CreateUserAnalyst, GrantReadonlyToAnalyst,
      CreateUserScientist, GrantReadwriteToScientist, QueryReadonlyPrivileges,
      QueryReadwritePrivileges, QueryAuthMembers>>

Finished == step > Len(Program)
Stmt == Program[step]
At(kind) == ~Finished /\ Stmt.kind = kind

\* An exception ends the cell: the notebook goes on with the next cell
NextCell(k) ==
    IF \E l \in k + 1 .. Len(Program) : Program[l].cell # Program[k].cell
    THEN CHOOSE l \in k + 1 .. Len(Program) :
             /\ Program[l].cell # Program[k].cell
             /\ \A m \in k + 1 .. l - 1 : Program[m].cell = Program[k].cell
    ELSE Len(Program) + 1

Advance(ok) ==
    /\ step' = IF ok THEN step + 1 ELSE NextCell(step)
    /\ failed' = IF ok THEN failed ELSE failed \cup {step}

(***************************************************************************)
(* psycopg2: the connection and cursor.execute.                            *)
(***************************************************************************)
NoConn == [open |-> FALSE, dbname |-> "", autocommit |-> FALSE, status |-> "idle"]

\* The state a statement of this session reads and changes
View == IF conn.autocommit THEN committed ELSE working

\* Whether cur.execute returns normally, for a statement whose effect is r
Succeeds(r) == conn.open /\ conn.status # "aborted" /\ r.ok

\* cur.execute(...): with autocommit the statement commits on its own; without it
\* the first statement opens a transaction that only conn.commit() would end,
\* and an error leaves the transaction aborted
Run(r) ==
    /\ IF Succeeds(r)
       THEN IF conn.autocommit
            THEN /\ committed' = r.db
                 /\ working' = r.db
                 /\ conn' = conn
            ELSE /\ working' = r.db
                 /\ committed' = committed
                 /\ conn' = [conn EXCEPT !.status = "in_tx"]
       ELSE /\ UNCHANGED <<committed, working>>
            /\ conn' = IF conn.open /\ ~conn.autocommit
                       THEN [conn EXCEPT !.status = "aborted"] ELSE conn
    /\ Advance(Succeeds(r))

\* conn = psycopg2.connect(dbname=..., user="postgres"); cur = conn.cursor()
PsycopgConnect ==
    /\ At("connect")
    /\ IF Stmt.dbname \in committed.databases
       THEN /\ conn' = [open |-> TRUE, dbname |-> Stmt.dbname, autocommit |-> FALSE,
                        status |-> "idle"]
            /\ working' = committed
            /\ Advance(TRUE)
       ELSE /\ UNCHANGED <<conn, working>>
            /\ Advance(FALSE)
    /\ UNCHANGED <<copy_rows, committed, readonly_privileges, readwrite_privileges,
                   members_printed, other_session>>
    /\ UNCHANGED csvVars

\* conn.autocommit = True
PsycopgAutocommit ==
    /\ At("autocommit")
    /\ conn' = [conn EXCEPT !.autocommit = TRUE]
    /\ Advance(TRUE)
    /\ UNCHANGED <<copy_rows, committed, working, readonly_privileges,
                   readwrite_privileges, members_printed, other_session>>
    /\ UNCHANGED csvVars

\* conn.close(): what the transaction has not committed is discarded
PsycopgClose ==
    /\ At("close")
    /\ conn' = [conn EXCEPT !.open = FALSE, !.status = "idle"]
    /\ working' = committed
    /\ Advance(TRUE)
    /\ UNCHANGED <<copy_rows, committed, readonly_privileges, readwrite_privileges,
                   members_printed, other_session>>
    /\ UNCHANGED csvVars

NoFetch ==
    /\ UNCHANGED <<copy_rows, readonly_privileges, readwrite_privileges, members_printed,
                   other_session>>
    /\ UNCHANGED csvVars

ExecCreateDatabase ==
    /\ At("create_database")
    /\ Run(CreateDatabaseEff(View, Stmt.name))
    /\ NoFetch

ExecCreateSchema ==
    /\ At("create_schema")
    /\ Run(CreateSchemaEff(View, Stmt.name))
    /\ NoFetch

ExecCreateType ==
    /\ At("create_type")
    /\ Run(CreateTypeEff(View, Stmt.name))
    /\ NoFetch

ExecCreateTable ==
    /\ At("create_table")
    /\ Run(CreateTableEff(View, Stmt.schema, Stmt.name, Stmt.type))
    /\ NoFetch

ExecCopy ==
    /\ At("copy")
    /\ Run(CopyEff(View, Stmt.schema, Stmt.name, copy_rows))
    /\ NoFetch

ExecSelect ==
    /\ At("select")
    /\ Run(SelectEff(View, Stmt.schema, Stmt.name))
    /\ NoFetch

ExecRevokeSchema ==
    /\ At("revoke_schema")
    /\ Run(RevokeAllSchemaEff(View, Stmt.schema, Stmt.grantee))
    /\ NoFetch

ExecRevokeDatabase ==
    /\ At("revoke_database")
    /\ Run(RevokeAllDatabaseEff(View, Stmt.database, Stmt.grantee))
    /\ NoFetch

ExecCreateRole ==
    /\ At("create_role")
    /\ Run(CreateRoleEff(View, Stmt.name))
    /\ NoFetch

ExecGrantDatabase ==
    /\ At("grant_database")
    /\ Run(GrantDatabaseEff(View, Stmt.priv, Stmt.database, Stmt.grantee))
    /\ NoFetch

ExecGrantSchema ==
    /\ At("grant_schema")
    /\ Run(GrantSchemaEff(View, Stmt.priv, Stmt.schema, Stmt.grantee))
    /\ NoFetch

ExecGrantTables ==
    /\ At("grant_tables")
    /\ Run(GrantAllTablesEff(View, Stmt.privs, Stmt.schema, Stmt.grantee))
    /\ NoFetch

ExecGrantRole ==
    /\ At("grant_role")
    /\ Run(GrantRoleEff(View, Stmt.role, Stmt.member))
    /\ NoFetch

\* SELECT grantee, privilege_type FROM information_schema.table_privileges
\* WHERE grantee = ...; the rows fetchall() returns, as a set
TablePrivilegeRows(db, grantee) ==
    {[grantee |-> q.grantee, privilege_type |-> q.privilege_type] :
         q \in {u \in db.table_privileges : u.grantee = grantee}}

ExecQueryPrivileges ==
    /\ At("query_privileges")
    /\ Run(Ok(View))
    /\ IF Succeeds(Ok(View))
       THEN IF Stmt.grantee = "readonly"
            THEN /\ readonly_privileges' = TablePrivilegeRows(View, Stmt.grantee)
                 /\ UNCHANGED readwrite_privileges
            ELSE /\ readwrite_privileges' = TablePrivilegeRows(View, Stmt.grantee)
                 /\ UNCHANGED readonly_privileges
       ELSE UNCHANGED <<readonly_privileges, readwrite_privileges>>
    /\ UNCHANGED <<copy_rows, members_printed, other_session>>
    /\ UNCHANGED csvVars

\* SELECT users.rolname, groups.rolname FROM pg_auth_members ... WHERE groups.rolname IN (...)
AuthMemberRows(db, groups) ==
    {[user |-> m.member, group |-> m.role] : m \in {u \in db.members : u.role \in groups}}

ExecQueryMembers ==
    /\ At("query_members")
    /\ Run(Ok(View))
    /\ members_printed' = IF Succeeds(Ok(View))
                          THEN AuthMemberRows(View, Stmt.groups) ELSE members_printed
    /\ UNCHANGED <<copy_rows, readonly_privileges, readwrite_privileges, other_session>>
    /\ UNCHANGED csvVars

\* Another session (data_analyst logging in, psql) after the last cell: it reads
\* the committed state only
OtherSessionLogin ==
    /\ ~other_session.asked
    /\ Finished
    /\ other_session' = [asked |-> TRUE, sees |-> committed]
    /\ UNCHANGED <<copy_rows, step, conn, committed, working, failed, readonly_privileges,
                   readwrite_privileges, members_printed>>
    /\ UNCHANGED csvVars

CsvIdle ==
    /\ file = [exists |-> FALSE, records |-> <<>>]
    /\ cell = "end"
    /\ col_headers = Unbound
    /\ i = 0
    /\ out = <<>>
    /\ desc_unique_values = Unbound
    /\ desc_max_length = Unbound
    /\ raised = [cell4 |-> "", cell6 |-> "", cell9 |-> ""]
    /\ pc = "idle"
    /\ col_index = 0
    /\ pos = 0
    /\ acc = {}
    /\ pending = NoOutcome
    /\ handles = 0
    /\ ret = NoOutcome

\* boston.csv as COPY reads it: the primary key of each data row, and whether the
\* row parses into the seven column types
CopyRows == [incident_number : 1 .. MaxCopyRows, valid : BOOLEAN]

InitDB ==
    /\ CsvIdle
    /\ copy_rows \in SeqsUpTo(CopyRows, MaxCopyRows)
    /\ step = 1
    /\ conn = NoConn
    /\ \E pub \in {{"USAGE"}, {"USAGE", "CREATE"}} :
           /\ committed = FreshServer(pub)
           /\ working = FreshServer(pub)
    /\ failed = {}
    /\ readonly_privileges = {}
    /\ readwrite_privileges = {}
    /\ members_printed = {}
    /\ other_session = [asked |-> FALSE, sees |-> {}]

NextDB ==
    \/ PsycopgConnect
    \/ PsycopgAutocommit
    \/ PsycopgClose
    \/ ExecCreateDatabase
    \/ ExecCreateSchema
    \/ ExecCreateType
    \/ ExecCreateTable
    \/ ExecCopy
    \/ ExecSelect
    \/ ExecRevokeSchema
    \/ ExecRevokeDatabase
    \/ ExecCreateRole
    \/ ExecGrantDatabase
    \/ ExecGrantSchema
    \/ ExecGrantTables
    \/ ExecGrantRole
    \/ ExecQueryPrivileges
    \/ ExecQueryMembers
    \/ OtherSessionLogin

SpecDB == InitDB /\ [][NextDB]_vars

(***************************************************************************)
(* Properties of the CSV cells, checked under Spec.                        *)
(***************************************************************************)
HasHeader(f) == f.exists /\ Len(f.records) >= 1
Header(f) == f.records[1]
DataIndexes(f) == 2 .. Len(f.records)
\* The zero-based index c names a field of every data row
ValidForAllRows(f, c) == c >= 0 /\ \A k \in DataIndexes(f) : c < Len(f.records[k])
\* The raw field values at zero-based index c of the data rows
ColumnValues(f, c) == {f.records[k][c + 1] : k \in DataIndexes(f)}
InHeaderBounds(f, c) == c \in 0 .. Len(Header(f)) - 1
SomeRowShort(f, c) == \E k \in DataIndexes(f) : Len(f.records[k]) < c + 1
ValidTable(f) == HasHeader(f) /\ \A k \in DataIndexes(f) : Len(f.records[k]) >= Len(Header(f))
IsLongest(n, vs) == (\E v \in vs : Len(v) = n) /\ (\A v \in vs : Len(v) <= n)

\* C1: for a table with a header and a column index valid for all data rows,
\* get_col_set returns exactly the set of the values at that index in the data
\* rows (the header's name only if it is also a data value), and the count cell 6
\* reports for a column is the size of that set.
C1_DistinctValues ==
    /\ (pc = "done" /\ HasHeader(file) /\ ValidForAllRows(file, col_index))
           => ret = Return(ColumnValues(file, col_index))
    /\ \A k \in 1 .. Len(out) :
           (HasHeader(file) /\ ValidForAllRows(file, k - 1))
               => out[k].num_unique_values = Cardinality(ColumnValues(file, k - 1))

\* Two data rows repeat one value, and the column's name is no data value
C1_Witness ==
    /\ cell = "cell6"
    /\ Len(out) = 1
    /\ Len(file.records) = 3
    /\ out[1].name = "incident_number"
    /\ out[1].values = {"1"}
    /\ out[1].num_unique_values = 1

\* C2: after cell 9 has profiled a column that every row has, max_length is the
\* length of the longest distinct value when there are data rows, and with no data
\* rows the profile is produced without error as ({}, 0, 0).
C2_MaxLength ==
    (/\ cell = "end"
     /\ HasHeader(file)
     /\ InHeaderBounds(file, col_index)
     /\ ValidForAllRows(file, col_index))
        => /\ raised.cell9 = ""
           /\ desc_unique_values = Bound(ColumnValues(file, col_index))
           /\ desc_max_length.bound
           /\ IF DataIndexes(file) = {}
              THEN desc_max_length.val = 0
              ELSE IsLongest(desc_max_length.val, ColumnValues(file, col_index))

\* C3: a call whose column index is outside the header's bounds fails, whatever
\* the data rows are, and not with the error of a short data row.
C3_InvalidIndex ==
    (pc = "done" /\ HasHeader(file) /\ ~InHeaderBounds(file, col_index))
        => (ret.kind = "raise" /\ ret.exc # "IndexError")

\* C4: when some data row has fewer than col_index + 1 fields the call raises (the
\* subscript's IndexError) and returns no set, and its caller binds no result:
\* cell 9 leaves desc_unique_values and desc_max_length unbound, cell 6 prints no
\* line for that column.
C4_ShortRow ==
    /\ (pc = "done" /\ HasHeader(file) /\ SomeRowShort(file, col_index))
           => ret = Raise("IndexError")
    /\ (cell = "end" /\ HasHeader(file) /\ SomeRowShort(file, col_index))
           => (/\ raised.cell9 = "IndexError"
               /\ ~desc_unique_values.bound
               /\ ~desc_max_length.bound)
    /\ \A k \in 1 .. Len(out) : ~SomeRowShort(file, k - 1)

\* The short row comes second: a value had been collected when the call failed
C4_Witness ==
    /\ cell = "end"
    /\ raised.cell9 = "IndexError"
    /\ Len(file.records) = 3
    /\ Len(file.records[2]) > col_index
    /\ Len(file.records[3]) < col_index + 1
    /\ acc # {}
    /\ ~desc_unique_values.bound

\* C5: for a table whose rows all have the header's fields, cell 6 ends having
\* printed one line per header column, in header order: line k carries the k-th
\* header name and the distinct values of column index k - 1.
C5_OneProfilePerColumn ==
    (cell \in {"cell9", "end"} /\ ValidTable(file))
        => /\ raised.cell6 = ""
           /\ Len(out) = Len(Header(file))
           /\ \A k \in 1 .. Len(out) :
                  /\ out[k].name = Header(file)[k]
                  /\ out[k].values = ColumnValues(file, k - 1)
                  /\ out[k].num_unique_values = Cardinality(out[k].values)

C5_Witness ==
    /\ cell = "cell9"
    /\ ValidTable(file)
    /\ Len(out) = 2
    /\ out[1].name = "incident_number"
    /\ out[2].name = "offense_code"
    /\ out[1].values # out[2].values

\* The data rows of f in the order p, under the same header
RowOrders(n) == {p \in [1 .. n -> 1 .. n] : \A a, b \in 1 .. n : p[a] = p[b] => a = b}
Permuted(f, p) ==
    [f EXCEPT !.records = <<f.records[1]>> \o [k \in 1 .. Len(f.records) - 1 |-> f.records[p[k] + 1]]]

\* C6: the outcome of a call on the file, and the distinct set and maximum length
\* cell 9 derives from it, are those of the call on every reordering of the data rows.
C6_OrderIndependent ==
    /\ (pc = "done" /\ HasHeader(file))
           => \A p \in RowOrders(Len(file.records) - 1) :
                  get_col_set(Permuted(file, p), col_index) = ret
    /\ (cell = "end" /\ HasHeader(file) /\ desc_max_length.bound)
           => \A p \in RowOrders(Len(file.records) - 1) :
                  LET r == get_col_set(Permuted(file, p), col_index)
                  IN /\ r.kind = "value"
                     /\ r.val = desc_unique_values.val
                     /\ Cardinality(r.val) = Cardinality(desc_unique_values.val)
                     /\ IsLongest(desc_max_length.val, r.val)

\* Two data rows with different values in the column: their swap is another order
C6_Witness ==
    /\ cell = "end"
    /\ desc_max_length.bound
    /\ Len(file.records) >= 3
    /\ Cardinality(desc_unique_values.val) = 2

\* C9: a file handle is open exactly while a call is inside its with block; the
\* block is left with a return value only after the last row was consumed; and
\* when the call has ended, by return or by exception, no handle is open.
C9_HandleClosed ==
    /\ handles \in {0, 1}
    /\ (handles = 1) <=> (pc \in {"next", "iter", "exit"})
    /\ (pc = "exit" /\ pending.kind = "value")
           => (pos > Len(file.records) /\ pending.val = acc)
    /\ (pc = "done" /\ file.exists) => ret = pending

\* A call that failed on a row, after an earlier call had returned
C9_Witness ==
    /\ cell = "cell9"
    /\ pc = "done"
    /\ Len(out) >= 1
    /\ ret = Raise("IndexError")
    /\ handles = 0

(***************************************************************************)
(* Properties of the database cells, checked under SpecDB.                 *)
(***************************************************************************)
RanWithoutError == Finished /\ failed = {}
\* The privileges a role holds on crimes.boston_crimes in the state db
PrivilegesOn(db, grantee) ==
    {q.privilege_type : q \in {u \in db.table_privileges :
                                   u.grantee = grantee /\ u.table = BostonCrimes}}
ReadWrite == {"SELECT", "INSERT", "DELETE", "UPDATE"}

\* C7: at no point does readonly hold a table privilege other than SELECT, or
\* readwrite one outside SELECT, INSERT, DELETE, UPDATE, and no other role is granted
\* one; when all cells have run, the notebook's session sees exactly {SELECT} for
\* readonly and exactly the four for readwrite, and cell 29 fetched just these.
C7_GroupPrivileges ==
    /\ \A q \in working.table_privileges :
           /\ q.grantee \in {"readonly", "readwrite"}
           /\ q.table = BostonCrimes
           /\ q.grantee = "readonly" => q.privilege_type = "SELECT"
           /\ q.grantee = "readwrite" => q.privilege_type \in ReadWrite
    /\ RanWithoutError
           => /\ PrivilegesOn(working, "readonly") = {"SELECT"}
              /\ PrivilegesOn(working, "readwrite") = ReadWrite
              /\ readonly_privileges =
                     {[grantee |-> "readonly", privilege_type |-> "SELECT"]}
              /\ readwrite_privileges =
                     {[grantee |-> "readwrite", privilege_type |-> q] : q \in ReadWrite}

C7_Witness ==
    /\ RanWithoutError
    /\ Len(copy_rows) >= 1
    /\ BostonCrimes \in working.tables
    /\ PrivilegesOn(working, "readonly") = {"SELECT"}
    /\ Cardinality(readwrite_privileges) = Cardinality(ReadWrite)

UserGroups ==
    {[member |-> "data_analyst", role |-> "readonly"],
     [member |-> "data_scientist", role |-> "readwrite"]}

\* C8: the memberships the notebook's session sees never go beyond
\* (data_analyst, readonly) and (data_scientist, readwrite), and when all cells
\* have run they are exactly these two, which is what cell 31 fetched.
C8_Memberships ==
    /\ working.members \subseteq UserGroups
    /\ RanWithoutError
           => /\ working.members = UserGroups
              /\ members_printed =
                     {[user |-> "data_analyst", group |-> "readonly"],
                      [user |-> "data_scientist", group |-> "readwrite"]}

C8_Witness ==
    /\ RanWithoutError
    /\ Cardinality(members_printed) = 2
    /\ {"data_analyst", "data_scientist", "readonly", "readwrite"} \subseteq working.roles

\* C10: when all cells have run, no transaction is open on the connection and the
\* committed state, which is all another session sees, holds the table, the loaded
\* rows, the groups, the users and the grants.
C10_Committed ==
    RanWithoutError
        => /\ conn.status # "in_tx"
           /\ BostonCrimes \in committed.tables
           /\ committed.rows = {copy_rows[k].incident_number : k \in 1 .. Len(copy_rows)}
           /\ {"readonly", "readwrite", "data_analyst", "data_scientist"}
                  \subseteq committed.roles
           /\ committed.table_privileges = working.table_privileges
           /\ committed.members = UserGroups
           /\ other_session.asked => other_session.sees = working

====
